---- MODULE Spec2Model ----
(***************************************************************************)
(* Model of stuy_utils/schedule.py: the module-level loading of the term   *)
(* calendar and the five bell schedule tables, and the day / schedule /    *)
(* period resolvers that read them.                                        *)
(*                                                                         *)
(* Python values are modelled as follows.                                  *)
(*   date / datetime argument : [kind, ord, tod]; kind is "date",          *)
(*       "datetime" or "none" (an argument that is not a date), ord is     *)
(*       the date's ordinal, tod the time of day [hour, minute].           *)
(*   outcome of a call        : [kind, val]; kind is "return" (val is the  *)
(*       returned value), "none" (the call returned None) or "raise"       *)
(*       (val names the exception).                                        *)
(*   dict                     : the sequence of its <<key, value>> items   *)
(*       in insertion order (TERM_DAYS, only ever indexed by key, is a     *)
(*       function).                                                        *)
(*   period name              : the sequence of its space separated words. *)
(***************************************************************************)
EXTENDS Integers, Sequences, FiniteSets, TLC

VARIABLES files, cursor, pc,
          TERM_DAYS, REGULAR_BELL_SCHEDULE, CONFERENCE_BELL_SCHEDULE,
          HOMEROOM_BELL_SCHEDULE, PTC_BELL_SCHEDULE,
          EXTENDED_HOMEROOM_BELL_SCHEDULE,
          call, result

vars == <<files, cursor, pc, TERM_DAYS, REGULAR_BELL_SCHEDULE,
          CONFERENCE_BELL_SCHEDULE, HOMEROOM_BELL_SCHEDULE, PTC_BELL_SCHEDULE,
          EXTENDED_HOMEROOM_BELL_SCHEDULE, call, result>>

tables == <<TERM_DAYS, REGULAR_BELL_SCHEDULE, CONFERENCE_BELL_SCHEDULE,
            HOMEROOM_BELL_SCHEDULE, PTC_BELL_SCHEDULE,
            EXTENDED_HOMEROOM_BELL_SCHEDULE>>

(***************************************************************************)
(* Bounds of the explored inputs.                                          *)
(***************************************************************************)
\* Calendar rows are drawn for the days 1 .. MaxDay; day MaxDay + 1 is never
\* in the calendar.
MaxDay == 3
\* Times of day are the hours FirstHour .. FirstHour + MaxTime.
MaxTime == 2
\* A bell schedule source table holds 1 .. MaxPeriods periods.
MaxPeriods == 3

FirstHour == 11

Days == 1 .. MaxDay
Slots == 0 .. MaxTime

(***************************************************************************)
(* Outcomes of a call.                                                     *)
(***************************************************************************)
Return(v) == [kind |-> "return", val |-> v]
ReturnNone == [kind |-> "none", val |-> "None"]
Raise(e) == [kind |-> "raise", val |-> e]

IsReturn(r, v) == r.kind = "return" /\ r.val = v
IsNone(r) == r.kind = "none"
IsRaise(r, e) == r.kind = "raise" /\ r.val = e

(***************************************************************************)
(* Dates, datetimes and times of day.                                      *)
(***************************************************************************)
Midnight == [hour |-> 0, minute |-> 0]
PyDate(d) == [kind |-> "date", ord |-> d, tod |-> Midnight]
PyDatetime(d, t) == [kind |-> "datetime", ord |-> d, tod |-> t]
PyNone == [kind |-> "none", ord |-> 0, tod |-> Midnight]

\* isinstance(day, date): a datetime is a date too.
IsDateInstance(day) == day.kind \in {"date", "datetime"}

\* if isinstance(day, dt): day = day.date()
ToDate(day) == IF day.kind = "datetime" THEN PyDate(day.ord) ELSE day

\* day + timedelta(days=1)
PlusOneDay(day) == [day EXCEPT !.ord = @ + 1]

\* date.isoformat() for the ordinals the model uses.
IsoDates == <<"2023-09-08", "2023-09-09", "2023-09-10", "2023-09-11",
              "2023-09-12", "2023-09-13", "2023-09-14", "2023-09-15">>
IsoFormat(day) == IsoDates[day.ord]

\* Comparison of datetime.time values.
TimeLE(a, b) == a.hour < b.hour \/ (a.hour = b.hour /\ a.minute <= b.minute)

\* Time = namedtuple("Time", ("start", "end"))
Time(s, e) == [start |-> s, end |-> e]

\* convert_12h_to_24h followed by time.fromisoformat; a 12-hour time is
\* [hours, minutes, am_pm].  The source tables never hold hours > 12.
convert_12h_to_24h(hours12) ==
    LET h0 == IF hours12.hours = 12 THEN 0 ELSE hours12.hours
        h1 == IF hours12.am_pm = "PM" THEN h0 + 12 ELSE h0
    IN [hour |-> h1, minute |-> hours12.minutes]

(***************************************************************************)
(* The data files read at import time.  A file is the sequence of its rows *)
(* (the header row first); a row is the sequence of its cells.             *)
(***************************************************************************)
\* The 12-hour reading, as written in a bell schedule file, of slot i.
Clock12(i) ==
    LET h == FirstHour + i
    IN [hours |-> IF h % 12 = 0 THEN 12 ELSE h % 12,
        minutes |-> 0,
        am_pm |-> IF h < 12 THEN "AM" ELSE "PM"]

\* The time of day of slot i, as a datetime carries it.
Clock24(i) == [hour |-> FirstHour + i, minute |-> 0]

Period1 == <<"Period", "1">>
Passing12 == <<"Passing", "1-2">>
Period2 == <<"Period", "2">>
Passing23 == <<"Passing", "2-3">>
PeriodNames == {Period1, Passing12, Period2, Passing23}

BellHeader == <<"Period", "Start", "End">>
BellRow(name, s, e) == <<name, Clock12(s), Clock12(e)>>

\* Well-formed bell schedule files of n periods: unique names, start <= end,
\* and no period starting before the one listed before it has ended.
NameSeqs(n) ==
    {ns \in [1 .. n -> PeriodNames] : \A i, j \in 1 .. n : ns[i] = ns[j] => i = j}
TimeVecs(n) ==
    {ts \in [1 .. 2 * n -> Slots] : \A i \in 1 .. 2 * n - 1 : ts[i] <= ts[i + 1]}
BellFilesOf(n) ==
    {<<BellHeader>> \o [i \in 1 .. n |-> BellRow(ns[i], ts[2 * i - 1], ts[2 * i])] :
        ns \in NameSeqs(n), ts \in TimeVecs(n)}
RegularFiles == UNION {BellFilesOf(n) : n \in 1 .. MaxPeriods}

RegularFixture ==
    <<BellHeader, BellRow(Period1, 0, 1), BellRow(Passing12, 1, 1),
      BellRow(Period2, 1, 2)>>
ConferenceFixture ==
    <<BellHeader, BellRow(Period1, 0, 0), BellRow(Period2, 2, 2)>>
HomeroomFixture ==
    <<BellHeader, BellRow(<<"Homeroom">>, 0, 0), BellRow(Period1, 1, 2)>>
PTCFixture ==
    <<BellHeader, BellRow(Period1, 0, 1), BellRow(Passing12, 2, 2)>>
ExtendedHomeroomFixture ==
    <<BellHeader, BellRow(<<"Extended", "Homeroom">>, 0, 1), BellRow(Period1, 2, 2)>>

\* The values of the Schedule column: the five variants, the "None" sentinel
\* and a name that is none of them.
ScheduleCells ==
    {"Regular", "Conference", "Homeroom", "PTC", "Extended Homeroom", "None", "Fall"}

Absent == [present |-> FALSE, school |-> "False", schedule |-> "None"]
Off == [present |-> TRUE, school |-> "False", schedule |-> "None"]
On(v) == [present |-> TRUE, school |-> "True", schedule |-> v]

Calendars == [Days -> {Absent, Off} \cup {On(v) : v \in ScheduleCells}]
\* A day off followed by Regular school days.
PlainCalendar == [d \in Days |-> IF d = 1 THEN Off ELSE On("Regular")]

TermHeader == <<"Date", "School", "Cycle", "Schedule", "Testing", "Events">>
TermRow(d, o) ==
    <<IsoDates[d], o.school, IF o.school = "True" THEN "A1" ELSE "None",
      o.schedule, "None", "None">>

\* One row per date of the calendar, in date order.
RECURSIVE TermRowsFrom(_, _)
TermRowsFrom(cal, d) ==
    IF d > MaxDay THEN <<>>
    ELSE (IF cal[d].present THEN <<TermRow(d, cal[d])>> ELSE <<>>)
         \o TermRowsFrom(cal, d + 1)
TermFile(cal) == <<TermHeader>> \o TermRowsFrom(cal, 1)

(***************************************************************************)
(* Module-level loading (the with-block run at import).                    *)
(***************************************************************************)
\* The file each handle of the with-block is opened on.
Opened ==
    [term_tsv |-> "term", regular_tsv |-> "regular",
     conference_tsv |-> "conference", homeroom_tsv |-> "homeroom"]

\* list(csv.reader(handle)): the rows from the handle's position to the end.
ReadRows(handle) ==
    SubSeq(files[Opened[handle]], cursor[handle] + 1, Len(files[Opened[handle]]))

\* The handle's position after list(csv.reader(handle)).
Consumed(handle) == [cursor EXCEPT ![handle] = Len(files[Opened[handle]])]

\* rows[1:]
DropFirst(rows) == IF rows = <<>> THEN <<>> ELSE Tail(rows)

\* d[k] = v on a dict kept as the sequence of its items.
DictSet(d, k, v) ==
    IF \E i \in 1 .. Len(d) : d[i][1] = k
    THEN [i \in 1 .. Len(d) |-> IF d[i][1] = k THEN <<k, v>> ELSE d[i]]
    ELSE Append(d, <<k, v>>)

\* {row[0]: Time(*[time.fromisoformat(convert_12h_to_24h(e)) for e in row[1:]])
\*  for row in rows}
RECURSIVE BellDict(_, _)
BellDict(rows, acc) ==
    IF rows = <<>> THEN acc
    ELSE BellDict(Tail(rows),
                  DictSet(acc, Head(rows)[1],
                          Time(convert_12h_to_24h(Head(rows)[2]),
                               convert_12h_to_24h(Head(rows)[3]))))

\* {row[0]: Info(*row[1:]) for row in rows}
TermDict(rows) ==
    LET keys == {rows[i][1] : i \in 1 .. Len(rows)}
        last(k) == CHOOSE i \in 1 .. Len(rows) :
                       rows[i][1] = k /\ \A j \in i + 1 .. Len(rows) : rows[j][1] # k
    IN [k \in keys |-> Tail(rows[last(k)])]

Init ==
    /\ \E cal \in Calendars, reg \in RegularFiles :
          /\ cal = PlainCalendar \/ reg = RegularFixture
          /\ files = [term |-> TermFile(cal), regular |-> reg,
                      conference |-> ConferenceFixture,
                      homeroom |-> HomeroomFixture, ptc |-> PTCFixture,
                      extended_homeroom |-> ExtendedHomeroomFixture]
    /\ cursor = [term_tsv |-> 0, regular_tsv |-> 0, conference_tsv |-> 0,
                 homeroom_tsv |-> 0]
    /\ pc = "load_term"
    /\ TERM_DAYS = <<>>
    /\ REGULAR_BELL_SCHEDULE = <<>>
    /\ CONFERENCE_BELL_SCHEDULE = <<>>
    /\ HOMEROOM_BELL_SCHEDULE = <<>>
    /\ PTC_BELL_SCHEDULE = <<>>
    /\ EXTENDED_HOMEROOM_BELL_SCHEDULE = <<>>
    /\ call = [op |-> "import", day |-> PyNone, flag |-> FALSE]
    /\ result = ReturnNone

LoadTermDays ==
    /\ pc = "load_term"
    /\ TERM_DAYS' = TermDict(DropFirst(ReadRows("term_tsv")))
    /\ cursor' = Consumed("term_tsv")
    /\ pc' = "load_regular"
    /\ UNCHANGED <<files, REGULAR_BELL_SCHEDULE, CONFERENCE_BELL_SCHEDULE,
                   HOMEROOM_BELL_SCHEDULE, PTC_BELL_SCHEDULE,
                   EXTENDED_HOMEROOM_BELL_SCHEDULE, call, result>>

LoadRegular ==
    /\ pc = "load_regular"
    /\ REGULAR_BELL_SCHEDULE' = BellDict(DropFirst(ReadRows("regular_tsv")), <<>>)
    /\ cursor' = Consumed("regular_tsv")
    /\ pc' = "load_conference"
    /\ UNCHANGED <<files, TERM_DAYS, CONFERENCE_BELL_SCHEDULE,
                   HOMEROOM_BELL_SCHEDULE, PTC_BELL_SCHEDULE,
                   EXTENDED_HOMEROOM_BELL_SCHEDULE, call, result>>

LoadConference ==
    /\ pc = "load_conference"
    /\ CONFERENCE_BELL_SCHEDULE' =
           BellDict(DropFirst(ReadRows("conference_tsv")), <<>>)
    /\ cursor' = Consumed("conference_tsv")
    /\ pc' = "load_homeroom"
    /\ UNCHANGED <<files, TERM_DAYS, REGULAR_BELL_SCHEDULE,
                   HOMEROOM_BELL_SCHEDULE, PTC_BELL_SCHEDULE,
                   EXTENDED_HOMEROOM_BELL_SCHEDULE, call, result>>

LoadHomeroom ==
    /\ pc = "load_homeroom"
    /\ HOMEROOM_BELL_SCHEDULE' = BellDict(DropFirst(ReadRows("homeroom_tsv")), <<>>)
    /\ cursor' = Consumed("homeroom_tsv")
    /\ pc' = "load_ptc"
    /\ UNCHANGED <<files, TERM_DAYS, REGULAR_BELL_SCHEDULE,
                   CONFERENCE_BELL_SCHEDULE, PTC_BELL_SCHEDULE,
                   EXTENDED_HOMEROOM_BELL_SCHEDULE, call, result>>

\* Reads the homeroom handle again: no handle is opened on the PTC file.
LoadPTC ==
    /\ pc = "load_ptc"
    /\ PTC_BELL_SCHEDULE' = BellDict(DropFirst(ReadRows("homeroom_tsv")), <<>>)
    /\ cursor' = Consumed("homeroom_tsv")
    /\ pc' = "load_extended_homeroom"
    /\ UNCHANGED <<files, TERM_DAYS, REGULAR_BELL_SCHEDULE,
                   CONFERENCE_BELL_SCHEDULE, HOMEROOM_BELL_SCHEDULE,
                   EXTENDED_HOMEROOM_BELL_SCHEDULE, call, result>>

\* Reads the homeroom handle a third time.
LoadExtendedHomeroom ==
    /\ pc = "load_extended_homeroom"
    /\ EXTENDED_HOMEROOM_BELL_SCHEDULE' =
           BellDict(DropFirst(ReadRows("homeroom_tsv")), <<>>)
    /\ cursor' = Consumed("homeroom_tsv")
    /\ pc' = "ready"
    /\ UNCHANGED <<files, TERM_DAYS, REGULAR_BELL_SCHEDULE,
                   CONFERENCE_BELL_SCHEDULE, HOMEROOM_BELL_SCHEDULE,
                   PTC_BELL_SCHEDULE, call, result>>

(***************************************************************************)
(* The resolvers.                                                          *)
(***************************************************************************)
\* x if x != "None" else None, an optional kept as a sequence of length <= 1.
Optional(x) == IF x # "None" THEN <<x>> ELSE <<>>

get_day_info(day) ==
    IF ~IsDateInstance(day) THEN Raise("InvalidDate")
    ELSE LET iso_date == IsoFormat(ToDate(day))
         IN IF iso_date \notin DOMAIN TERM_DAYS THEN Raise("DayNotInData")
            ELSE Return([school |-> TERM_DAYS[iso_date][1] = "True",
                         cycle |-> Optional(TERM_DAYS[iso_date][2]),
                         schedule |-> Optional(TERM_DAYS[iso_date][3]),
                         testing |-> Optional(TERM_DAYS[iso_date][4]),
                         events |-> Optional(TERM_DAYS[iso_date][5])])

\* The while loop of get_next_school_day, entered with next_day.
RECURSIVE ScanNextSchoolDay(_)
ScanNextSchoolDay(next_day) ==
    LET info == get_day_info(next_day)
    IN IF info.kind = "raise" THEN info
       ELSE IF info.val.school = FALSE
            THEN IF IsoFormat(next_day) \notin DOMAIN TERM_DAYS THEN ReturnNone
                 ELSE ScanNextSchoolDay(PlusOneDay(next_day))
            ELSE Return(next_day)

\* get_next_school_day without its always_same test.
get_next_school_day_always_scans(day, always_same) ==
    IF ~IsDateInstance(day) THEN Raise("InvalidDate")
    ELSE LET d == ToDate(day)
             iso_date == IsoFormat(d)
         IN IF iso_date \notin DOMAIN TERM_DAYS THEN Raise("DayNotInData")
            ELSE IF TERM_DAYS[iso_date][1] = "True" THEN Return(d)
            ELSE ScanNextSchoolDay(PlusOneDay(d))

get_next_school_day(day, always_same) ==
    IF ~IsDateInstance(day) THEN Raise("InvalidDate")
    ELSE LET d == ToDate(day)
             iso_date == IsoFormat(d)
         IN IF iso_date \notin DOMAIN TERM_DAYS THEN Raise("DayNotInData")
            ELSE IF TERM_DAYS[iso_date][1] = "True" THEN Return(d)
            ELSE IF always_same THEN Return(d)
            ELSE ScanNextSchoolDay(PlusOneDay(d))

\* get_bell_schedule answering None for every day off, as if this_day were set.
get_bell_schedule_this_day_only(day, this_day) ==
    IF ~IsDateInstance(day) THEN Raise("InvalidDate")
    ELSE LET iso_date == IsoFormat(ToDate(day))
         IN IF iso_date \notin DOMAIN TERM_DAYS THEN Raise("DayNotInData")
            ELSE IF TERM_DAYS[iso_date][1] # "True" THEN ReturnNone
            ELSE IF TERM_DAYS[iso_date][3] = "Regular"
                 THEN Return(REGULAR_BELL_SCHEDULE)
            ELSE IF TERM_DAYS[iso_date][3] = "Conference"
                 THEN Return(CONFERENCE_BELL_SCHEDULE)
            ELSE IF TERM_DAYS[iso_date][3] = "Homeroom"
                 THEN Return(HOMEROOM_BELL_SCHEDULE)
            ELSE IF TERM_DAYS[iso_date][3] = "PTC"
                 THEN Return(PTC_BELL_SCHEDULE)
            ELSE IF TERM_DAYS[iso_date][3] = "Extended Homeroom"
                 THEN Return(EXTENDED_HOMEROOM_BELL_SCHEDULE)
            ELSE ReturnNone

RECURSIVE get_bell_schedule(_, _)
get_bell_schedule(day, this_day) ==
    IF ~IsDateInstance(day) THEN Raise("InvalidDate")
    ELSE LET d == ToDate(day)
             iso_date == IsoFormat(d)
         IN IF iso_date \notin DOMAIN TERM_DAYS THEN Raise("DayNotInData")
            ELSE IF TERM_DAYS[iso_date][1] = "True"
            THEN IF TERM_DAYS[iso_date][3] = "None" THEN ReturnNone
                 ELSE IF TERM_DAYS[iso_date][3] = "Regular"
                      THEN Return(REGULAR_BELL_SCHEDULE)
                 ELSE IF TERM_DAYS[iso_date][3] = "Conference"
                      THEN Return(CONFERENCE_BELL_SCHEDULE)
                 ELSE IF TERM_DAYS[iso_date][3] = "Homeroom"
                      THEN Return(HOMEROOM_BELL_SCHEDULE)
                 ELSE IF TERM_DAYS[iso_date][3] = "PTC"
                      THEN Return(PTC_BELL_SCHEDULE)
                 ELSE IF TERM_DAYS[iso_date][3] = "Extended Homeroom"
                      THEN Return(EXTENDED_HOMEROOM_BELL_SCHEDULE)
                 ELSE ReturnNone
            ELSE IF this_day THEN ReturnNone
            ELSE LET next_day == get_next_school_day(d, FALSE)
                 IN IF next_day.kind = "raise" THEN next_day
                    ELSE get_bell_schedule(
                             IF next_day.kind = "none" THEN PyNone ELSE next_day.val,
                             FALSE)

\* InPeriod with the end of the period left out of it.
InPeriodHalfOpen(item, t) ==
    TimeLE(item[2].start, t) /\ TimeLE(t, item[2].end) /\ t # item[2].end

\* item[1].start <= day <= item[1].end
InPeriod(item, t) == TimeLE(item[2].start, t) /\ TimeLE(t, item[2].end)

\* The for loop of get_current_class, from the i-th item on.
RECURSIVE ScanItems(_, _, _)
ScanItems(schedule, t, i) ==
    IF i > Len(schedule) THEN ReturnNone
    ELSE IF InPeriod(schedule[i], t) THEN Return(schedule[i])
    ELSE ScanItems(schedule, t, i + 1)

get_current_class(day) ==
    LET schedule == get_bell_schedule(day, FALSE)
    IN IF schedule.kind = "raise" THEN schedule
       ELSE IF day.kind # "datetime" THEN Raise("AttributeError")
       ELSE IF schedule.kind = "none" THEN Raise("AttributeError")
       ELSE ScanItems(schedule.val, day.tod, 1)

\* list(schedule.keys()).index(key)
IndexOf(schedule, key) ==
    CHOOSE i \in 1 .. Len(schedule) :
        schedule[i][1] = key /\ \A j \in 1 .. i - 1 : schedule[j][1] # key

\* schedule[key]
DictGet(schedule, key) == schedule[IndexOf(schedule, key)][2]

\* "Passing" in name
ContainsPassing(name) == \E i \in 1 .. Len(name) : name[i] = "Passing"

get_next_class(day, skip_passing) ==
    LET schedule == get_bell_schedule(day, FALSE)
        current_class == get_current_class(day)
    IN IF schedule.kind = "raise" THEN schedule
       ELSE IF current_class.kind = "raise" THEN current_class
       ELSE IF current_class.kind = "none"
            THEN IF schedule.val = <<>> THEN Raise("StopIteration")
                 ELSE Return(schedule.val[1])
       ELSE LET index == IndexOf(schedule.val, current_class.val[1])
            IN IF index = Len(schedule.val) THEN ReturnNone
               ELSE LET next_class == schedule.val[index + 1][1]
                    IN IF skip_passing /\ ContainsPassing(next_class)
                       THEN IF index + 2 > Len(schedule.val)
                            THEN Raise("IndexError")
                            ELSE Return(<<schedule.val[index + 2][1],
                                          DictGet(schedule.val,
                                                  schedule.val[index + 2][1])>>)
                       ELSE Return(<<next_class, DictGet(schedule.val, next_class)>>)

get_current_period(time_of_period) ==
    LET current_class == get_current_class(time_of_period)
    IN IF current_class.kind = "raise" THEN current_class
       ELSE IF current_class.kind = "none" THEN ReturnNone
       ELSE Return(current_class.val[1])

(***************************************************************************)
(* Calls made by a client once the module is imported.                     *)
(***************************************************************************)
Datetimes == {PyDatetime(d, Clock24(i)) : d \in Days, i \in Slots}
\* The date-level functions take a date, a datetime or, wrongly, anything else.
DayArgs ==
    {PyDate(d) : d \in Days} \cup {PyDatetime(d, Clock24(0)) : d \in Days} \cup {PyNone}

CallGetDayInfo ==
    /\ pc = "ready"
    /\ \E day \in DayArgs :
          /\ call' = [op |-> "get_day_info", day |-> day, flag |-> FALSE]
          /\ result' = get_day_info(day)
    /\ pc' = "returned"
    /\ UNCHANGED <<files, cursor, tables>>

CallGetNextSchoolDay ==
    /\ pc = "ready"
    /\ \E day \in DayArgs, always_same \in BOOLEAN :
          /\ call' = [op |-> "get_next_school_day", day |-> day, flag |-> always_same]
          /\ result' = get_next_school_day(day, always_same)
    /\ pc' = "returned"
    /\ UNCHANGED <<files, cursor, tables>>

CallGetBellSchedule ==
    /\ pc = "ready"
    /\ \E day \in DayArgs, this_day \in BOOLEAN :
          /\ call' = [op |-> "get_bell_schedule", day |-> day, flag |-> this_day]
          /\ result' = get_bell_schedule(day, this_day)
    /\ pc' = "returned"
    /\ UNCHANGED <<files, cursor, tables>>

CallGetCurrentClass ==
    /\ pc = "ready"
    /\ \E day \in Datetimes :
          /\ call' = [op |-> "get_current_class", day |-> day, flag |-> FALSE]
          /\ result' = get_current_class(day)
    /\ pc' = "returned"
    /\ UNCHANGED <<files, cursor, tables>>

CallGetNextClass ==
    /\ pc = "ready"
    /\ \E day \in Datetimes, skip_passing \in BOOLEAN :
          /\ call' = [op |-> "get_next_class", day |-> day, flag |-> skip_passing]
          /\ result' = get_next_class(day, skip_passing)
    /\ pc' = "returned"
    /\ UNCHANGED <<files, cursor, tables>>

CallGetCurrentPeriod ==
    /\ pc = "ready"
    /\ \E day \in Datetimes :
          /\ call' = [op |-> "get_current_period", day |-> day, flag |-> FALSE]
          /\ result' = get_current_period(day)
    /\ pc' = "returned"
    /\ UNCHANGED <<files, cursor, tables>>

\* The client takes the outcome of its call and is free to make the next one.
TakeResult ==
    /\ pc = "returned"
    /\ pc' = "ready"
    /\ call' = [op |-> "import", day |-> PyNone, flag |-> FALSE]
    /\ result' = ReturnNone
    /\ UNCHANGED <<files, cursor, tables>>

Next ==
    \/ LoadTermDays
    \/ LoadRegular
    \/ LoadConference
    \/ LoadHomeroom
    \/ LoadPTC
    \/ LoadExtendedHomeroom
    \/ CallGetDayInfo
    \/ CallGetNextSchoolDay
    \/ CallGetBellSchedule
    \/ CallGetCurrentClass
    \/ CallGetNextClass
    \/ CallGetCurrentPeriod
    \/ TakeResult

Spec == Init /\ [][Next]_vars

(***************************************************************************)
(* Vocabulary of the properties, stated on the loaded tables and not on    *)
(* the resolvers.                                                          *)
(***************************************************************************)
Called(op) == pc = "returned" /\ call.op = op

InCalendar(d) == IsoDates[d] \in DOMAIN TERM_DAYS
InSession(d) == InCalendar(d) /\ TERM_DAYS[IsoDates[d]][1] = "True"
DayOff(d) == InCalendar(d) /\ ~InSession(d)

\* The call's argument is a date or datetime of a calendar day off.
OnDayOff == IsDateInstance(call.day) /\ DayOff(call.day.ord)

\* n is the first school day after d, every day between them being a
\* calendar day off.
FirstSchoolDayAfter(d, n) ==
    n > d /\ InSession(n) /\ \A j \in d + 1 .. n - 1 : DayOff(j)

\* The scan from d runs off the calendar before it meets a school day.
HorizonReached(d) ==
    \E k \in d + 1 .. MaxDay + 1 :
        ~InCalendar(k) /\ \A j \in d + 1 .. k - 1 : DayOff(j)

Variants == {"Regular", "Conference", "Homeroom", "PTC", "Extended Homeroom"}

\* The table the module keeps for a variant.
TableOf(v) ==
    CASE v = "Regular" -> REGULAR_BELL_SCHEDULE
      [] v = "Conference" -> CONFERENCE_BELL_SCHEDULE
      [] v = "Homeroom" -> HOMEROOM_BELL_SCHEDULE
      [] v = "PTC" -> PTC_BELL_SCHEDULE
      [] v = "Extended Homeroom" -> EXTENDED_HOMEROOM_BELL_SCHEDULE

\* The data file of a variant.
SourceOf(v) ==
    CASE v = "Regular" -> files.regular
      [] v = "Conference" -> files.conference
      [] v = "Homeroom" -> files.homeroom
      [] v = "PTC" -> files.ptc
      [] v = "Extended Homeroom" -> files.extended_homeroom

VariantOf(d) == TERM_DAYS[IsoDates[d]][3]

Minutes(t) == 60 * t.hour + t.minute

\* The positions of the periods of S whose closed interval holds t.
Holding(S, t) ==
    {i \in 1 .. Len(S) :
        Minutes(S[i][2].start) <= Minutes(t) /\ Minutes(t) <= Minutes(S[i][2].end)}

Least(I) == CHOOSE i \in I : \A j \in I : i <= j

SameOutcome(r, q) == r.kind = q.kind /\ r.val = q.val

(***************************************************************************)
(* C1.  get_next_school_day(date), always_same false, on a calendar day    *)
(* off: when the day by day scan reaches a date that is not in the         *)
(* calendar before any school day, the call returns None and raises        *)
(* nothing.                                                                *)
(***************************************************************************)
C1_HorizonReturnsNone ==
    (/\ Called("get_next_school_day")
     /\ ~call.flag
     /\ OnDayOff
     /\ HorizonReached(call.day.ord))
    => IsNone(result)

(***************************************************************************)
(* C2.  get_next_school_day(date), always_same false, on a calendar day    *)
(* off returns None, or a strictly later school day with no school day of  *)
(* the calendar strictly between the two.                                  *)
(***************************************************************************)
C2_NextSchoolDayIsEarliestLater ==
    (/\ Called("get_next_school_day")
     /\ ~call.flag
     /\ OnDayOff)
    => \/ IsNone(result)
       \/ /\ result.kind = "return"
          /\ result.val.ord > call.day.ord
          /\ InSession(result.val.ord)
          /\ \A j \in call.day.ord + 1 .. result.val.ord - 1 : ~InSession(j)

(***************************************************************************)
(* C3.  get_bell_schedule(date), this_day false, on a calendar day off     *)
(* returns what get_bell_schedule returns for the next school day, and     *)
(* returns None, not an error, when there is no next school day.           *)
(***************************************************************************)
C3_DayOffTakesNextSchoolDaysSchedule ==
    (/\ Called("get_bell_schedule")
     /\ ~call.flag
     /\ OnDayOff)
    => IF HorizonReached(call.day.ord)
       THEN IsNone(result)
       ELSE \E n \in call.day.ord + 1 .. MaxDay :
               /\ FirstSchoolDayAfter(call.day.ord, n)
               /\ SameOutcome(result, get_bell_schedule(PyDate(n), FALSE))

(***************************************************************************)
(* C4.  Each of the five variants is loaded from its own data file: on a   *)
(* school day of variant V get_bell_schedule returns the table built from  *)
(* the rows of V's file.                                                   *)
(***************************************************************************)
C4_EachVariantFromItsOwnSource ==
    (/\ Called("get_bell_schedule")
     /\ IsDateInstance(call.day)
     /\ InSession(call.day.ord)
     /\ VariantOf(call.day.ord) \in Variants)
    => IsReturn(result,
                BellDict(DropFirst(SourceOf(VariantOf(call.day.ord))), <<>>))

(***************************************************************************)
(* C5.  When get_bell_schedule(timestamp) is None, get_current_class       *)
(* fails with the error NoScheduleAvailable.                               *)
(***************************************************************************)
C5_NoScheduleAvailable ==
    (/\ Called("get_current_class")
     /\ IsNone(get_bell_schedule(call.day, FALSE)))
    => IsRaise(result, "NoScheduleAvailable")

(***************************************************************************)
(* C6.  get_next_class with skip_passing set: when there is a current      *)
(* period, it is not the last, the period after it is a passing period     *)
(* and no period stands two places after the current one, the call         *)
(* returns None.                                                           *)
(***************************************************************************)
C6_SkipPastTheEndReturnsNone ==
    (/\ Called("get_next_class")
     /\ call.flag
     /\ get_bell_schedule(call.day, FALSE).kind = "return")
    => LET S == get_bell_schedule(call.day, FALSE).val
           I == Holding(S, call.day.tod)
       IN (/\ I # {}
           /\ Least(I) < Len(S)
           /\ ContainsPassing(S[Least(I) + 1][1])
           /\ Least(I) + 2 > Len(S))
          => IsNone(result)

(***************************************************************************)
(* C7.  Given a schedule, get_current_class returns the first period in    *)
(* schedule order whose interval, both ends included, holds the time of    *)
(* day, and None when no period holds it.                                  *)
(***************************************************************************)
C7_CurrentClassIsFirstHolding ==
    (/\ Called("get_current_class")
     /\ get_bell_schedule(call.day, FALSE).kind = "return")
    => LET S == get_bell_schedule(call.day, FALSE).val
           I == Holding(S, call.day.tod)
       IN IF I = {} THEN IsNone(result) ELSE IsReturn(result, S[Least(I)])

\* The time is the end of one period and the start of a later listed one,
\* and the earlier one is returned.
C7_Witness ==
    /\ Called("get_current_class")
    /\ get_bell_schedule(call.day, FALSE).kind = "return"
    /\ LET S == get_bell_schedule(call.day, FALSE).val
       IN \E i, j \in 1 .. Len(S) :
             /\ i < j
             /\ S[i][2].end = call.day.tod
             /\ S[i][2].start # call.day.tod
             /\ S[j][2].start = call.day.tod
             /\ IsReturn(result, S[i])

(***************************************************************************)
(* C8.  get_next_class without skip_passing, given a schedule: the first   *)
(* period of the schedule when there is no current period, None when the   *)
(* current period is the last one, the period after the current one        *)
(* otherwise.                                                              *)
(***************************************************************************)
C8_NextClassWithoutSkipping ==
    (/\ Called("get_next_class")
     /\ ~call.flag
     /\ get_bell_schedule(call.day, FALSE).kind = "return")
    => LET S == get_bell_schedule(call.day, FALSE).val
           I == Holding(S, call.day.tod)
       IN IF I = {} THEN S # <<>> /\ IsReturn(result, S[1])
          ELSE IF Least(I) = Len(S) THEN IsNone(result)
          ELSE IsReturn(result, S[Least(I) + 1])

C10_DayOffAnswersFromNextSchoolDay ==
    (/\ pc = "returned"
     /\ call.op \in {"get_current_class", "get_current_period"}
     /\ OnDayOff)
    => \A n \in call.day.ord + 1 .. MaxDay :
          (/\ FirstSchoolDayAfter(call.day.ord, n)
           /\ VariantOf(n) \in Variants
           /\ Holding(TableOf(VariantOf(n)), call.day.tod) # {})
          => LET S == TableOf(VariantOf(n))
                 first == S[Least(Holding(S, call.day.tod))]
             IN IF call.op = "get_current_class"
                THEN IsReturn(result, first)
                ELSE IsReturn(result, first[1])

\* A day off two days before the next school day, at a time inside a period
\* of that day's table.
C10_Witness ==
    /\ Called("get_current_period")
    /\ OnDayOff
    /\ DayOff(call.day.ord + 1)
    /\ InSession(call.day.ord + 2)
    /\ VariantOf(call.day.ord + 2) \in Variants
    /\ Holding(TableOf(VariantOf(call.day.ord + 2)), call.day.tod) # {}
    /\ result.kind = "return"

====
